---- MODULE Spec2Model ----
(***************************************************************************)
(* A model of the build-orchestration core of crossbow: the Android NDK    *)
(* resolver (creator-tools/src/deps/android_ndk.rs), the manifest writing  *)
(* command (creator-build/.../gen_android_manifest), the aapt2 daemon      *)
(* session and the update check of the command line tool.                  *)
(*                                                                         *)
(* Strings are TLA+ strings, paths are sequences of path components,       *)
(* Option<T> is a record [some, val] and Result<T> is a record whose tag   *)
(* is "Ok" or the name of the error variant.                               *)
(***************************************************************************)
EXTENDS Integers, Sequences, FiniteSets, TLC

VARIABLES
    env,             \* the process environment: variable name -> EnvVal
    target_os,       \* cfg!(target_os): the platform the binary was built for
    pkg_version,     \* VERSION: env!("CARGO_PKG_VERSION") of the command line tool
    overflow_checks, \* whether the build traps on integer overflow (debug profile)
    fs,              \* the paths created on disk; every prefix of one exists too
    files,           \* contents of the regular files written by the program
    ndk,             \* Option<AndroidNdk>: the resolver object, once constructed
    call,            \* the operation in progress or last finished, with its arguments
    pc,              \* position inside the operation in progress
    tmp_platform,    \* the loop counter of sysroot_platform_lib_dir
    res,             \* the Result of the last finished operation
    dstate,          \* daemon session state
    acc,             \* daemon session: argument lines of the current invocation
    invocations,     \* daemon session: the invocations dispatched so far
    written,         \* daemon session: every line written to the subprocess input
    status_out       \* update check: the messages printed through Config::status

vars == <<env, target_os, pkg_version, overflow_checks, fs, files, ndk, call, pc,
          tmp_platform, res, dstate, acc, invocations, written, status_out>>

daemonVars == <<dstate, acc, invocations, written>>

-----------------------------------------------------------------------------
(* Option, Result, environment values and paths *)

None == [some |-> FALSE, val |-> ""]
Some(v) == [some |-> TRUE, val |-> v]

\* a Result: tag "Ok" or the error variant, with the payload it carries
Rs(tag, path, path2, str, num) ==
    [tag |-> tag, path |-> path, path2 |-> path2, str |-> str, num |-> num]
OkPath(p) == Rs("Ok", p, <<>>, "", 0)
OkPair(p, q) == Rs("Ok", p, q, "", 0)
PathNotFound(p) == Rs("PathNotFound", p, <<>>, "", 0)
UnsupportedHost(h) == Rs("UnsupportedHost", <<>>, <<>>, h, 0)
UnsupportedTarget == Rs("UnsupportedTarget", <<>>, <<>>, "", 0)
AndroidNdkNotFound == Rs("AndroidNdkNotFound", <<>>, <<>>, "", 0)
PlatformNotFound(n) == Rs("PlatformNotFound", <<>>, <<>>, "", n)
Panicked == Rs("Panic", <<>>, <<>>, "attempt to add with overflow", 0)
NoResult == Rs("None", <<>>, <<>>, "", 0)

\* an environment variable is unset, set to bytes that are not Unicode, or set to a string
Unset == [kind |-> "unset", val |-> ""]
NotUnicode == [kind |-> "notunicode", val |-> ""]
SetTo(s) == [kind |-> "ok", val |-> s]

\* std::env::var(name).ok(): Some only for a variable set to valid Unicode
EnvVar(e, name) == IF e[name].kind = "ok" THEN Some(e[name].val) ELSE None

\* Option::or_else
OrElse(a, b) == IF a.some THEN a ELSE b

\* PathBuf::from(string) and Path::join(component)
PathFrom(s) == IF s = "" THEN <<>> ELSE <<s>>
Join(p, c) == Append(p, c)
\* PathBuf::set_file_name: the last component is replaced
SetFileName(p, c) == IF p = <<>> THEN <<c>> ELSE Append(SubSeq(p, 1, Len(p) - 1), c)

IsPrefix(p, q) == Len(p) <= Len(q) /\ SubSeq(q, 1, Len(p)) = p
\* Path::exists on the tree whose created paths are f
Exists(f, p) == p # <<>> /\ \E q \in f : IsPrefix(p, q)

\* str::contains
Contains(h, s) == \E i \in 1..(Len(h) - Len(s) + 1) : SubSeq(h, i, i + Len(s) - 1) = s

-----------------------------------------------------------------------------
(* AndroidNdk::from_env *)

NdkVars == <<"ANDROID_NDK_ROOT", "ANDROID_NDK_PATH", "ANDROID_NDK_HOME", "NDK_HOME">>

\* a wrong lookup order: NDK_HOME is consulted first
ndk_env_lookup_reversed(e) ==
    OrElse(EnvVar(e, "NDK_HOME"),
    OrElse(EnvVar(e, "ANDROID_NDK_HOME"),
    OrElse(EnvVar(e, "ANDROID_NDK_PATH"),
           EnvVar(e, "ANDROID_NDK_ROOT"))))

\* lines 14-18: the first variable that reads as a string, in the fixed order
ndk_env_lookup(e) ==
    OrElse(EnvVar(e, "ANDROID_NDK_ROOT"),
    OrElse(EnvVar(e, "ANDROID_NDK_PATH"),
    OrElse(EnvVar(e, "ANDROID_NDK_HOME"),
           EnvVar(e, "NDK_HOME"))))

\* from_env(sdk_path): Result<AndroidNdk>, the Ok path being ndk_path
from_env(e, f, sdk_path) ==
    LET ndk_path == ndk_env_lookup(e)
    IN  IF /\ ~ndk_path.some
           /\ sdk_path.some
           /\ Exists(f, Join(PathFrom(sdk_path.val), "ndk-bundle"))
        THEN OkPath(Join(PathFrom(sdk_path.val), "ndk-bundle"))
        ELSE IF ndk_path.some
             THEN OkPath(PathFrom(ndk_path.val))
             ELSE AndroidNdkNotFound

-----------------------------------------------------------------------------
(* AndroidNdk::toolchain_dir *)

\* the error of an unresolved host, with the two variants swapped
unresolved_host_swapped(host_os) ==
    IF host_os.some THEN UnsupportedTarget ELSE UnsupportedHost(host_os.val)

\* lines 52-55: the error when neither HOST nor the build platform names a host
unresolved_host(host_os) ==
    IF host_os.some THEN UnsupportedHost(host_os.val) ELSE UnsupportedTarget

\* lines 37-56: the host tag ("arch"), an Ok carrying it in str, or the error
host_arch(host_os, os) ==
    LET host_contains(s) == IF host_os.some THEN Contains(host_os.val, s) ELSE FALSE
        Arch(a) == Rs("Ok", <<>>, <<>>, a, 0)
    IN  IF host_contains("linux") THEN Arch("linux")
        ELSE IF host_contains("macos") THEN Arch("darwin")
        ELSE IF host_contains("windows") THEN Arch("windows")
        ELSE IF os = "linux" THEN Arch("linux")
        ELSE IF os = "macos" THEN Arch("darwin")
        ELSE IF os = "windows" THEN Arch("windows")
        ELSE unresolved_host(host_os)

\* the probe without the fall back to the bare tag
probe_toolchain_no_fallback(f, ndk_path, arch) ==
    LET dir ==
            Join(Join(Join(Join(ndk_path, "toolchains"), "llvm"), "prebuilt"),
                 arch \o "-x86_64")
    IN  IF ~Exists(f, dir) THEN PathNotFound(dir)
        ELSE OkPath(dir)

\* lines 57-69: <ndk>/toolchains/llvm/prebuilt/<arch>-x86_64, else .../<arch>
probe_toolchain(f, ndk_path, arch) ==
    LET first ==
            Join(Join(Join(Join(ndk_path, "toolchains"), "llvm"), "prebuilt"),
                 arch \o "-x86_64")
        dir == IF ~Exists(f, first) THEN SetFileName(first, arch) ELSE first
    IN  IF ~Exists(f, dir) THEN PathNotFound(dir)
        ELSE OkPath(dir)

toolchain_dir(e, os, f, ndk_path) ==
    LET arch == host_arch(EnvVar(e, "HOST"), os)
    IN  IF arch.tag # "Ok" THEN arch ELSE probe_toolchain(f, ndk_path, arch.str)

-----------------------------------------------------------------------------
(* AndroidTarget and the accessors built on toolchain_dir *)

AndroidTargets == {"Armv7", "Aarch64"}

\* AndroidTarget::ndk_llvm_triple and AndroidTarget::ndk_triple (crate::types)
ndk_llvm_triple(t) ==
    IF t = "Armv7" THEN "armv7a-linux-androideabi" ELSE "aarch64-linux-android"
ndk_triple(t) ==
    IF t = "Armv7" THEN "arm-linux-androideabi" ELSE "aarch64-linux-android"

\* lines 73-76: the suffix of a compiler wrapper on the build platform
clang_ext(os) == IF os = "windows" THEN ".cmd" ELSE ""
\* lines 91-94
bin_ext(os) == IF os = "windows" THEN ".exe" ELSE ""

\* a clang that names the C front end whichever file is missing
clang_reports_c_path(e, os, f, ndk_path, target, platform) ==
    LET bin_name == ndk_llvm_triple(target) \o ToString(platform) \o "-clang"
        td == toolchain_dir(e, os, f, ndk_path)
        bin_path == Join(td.path, "bin")
        clang_c == Join(bin_path, bin_name \o clang_ext(os))
        clang_pp == Join(bin_path, bin_name \o "++" \o clang_ext(os))
    IN  IF td.tag # "Ok" THEN td
        ELSE IF ~Exists(f, clang_c) \/ ~Exists(f, clang_pp) THEN PathNotFound(clang_c)
        ELSE OkPair(clang_c, clang_pp)

\* lines 72-88
clang(e, os, f, ndk_path, target, platform) ==
    LET bin_name == ndk_llvm_triple(target) \o ToString(platform) \o "-clang"
        td == toolchain_dir(e, os, f, ndk_path)
        bin_path == Join(td.path, "bin")
        clang_c == Join(bin_path, bin_name \o clang_ext(os))
        clang_pp == Join(bin_path, bin_name \o "++" \o clang_ext(os))
    IN  IF td.tag # "Ok" THEN td
        ELSE IF ~Exists(f, clang_c) THEN PathNotFound(clang_c)
        ELSE IF ~Exists(f, clang_pp) THEN PathNotFound(clang_pp)
        ELSE OkPair(clang_c, clang_pp)

\* lines 90-105
toolchain_bin(e, os, f, ndk_path, bin, build_target) ==
    LET td == toolchain_dir(e, os, f, ndk_path)
        path == Join(Join(td.path, "bin"),
                     ndk_triple(build_target) \o "-" \o bin \o bin_ext(os))
    IN  IF td.tag # "Ok" THEN td
        ELSE IF ~Exists(f, path) THEN PathNotFound(path)
        ELSE OkPath(path)

\* lines 107-110: the Command is named by its program path
readelf(e, os, f, ndk_path, build_target) ==
    toolchain_bin(e, os, f, ndk_path, "readelf", build_target)

\* lines 112-123
sysroot_lib_dir(e, os, f, ndk_path, build_target) ==
    LET td == toolchain_dir(e, os, f, ndk_path)
        dir == Join(Join(Join(Join(td.path, "sysroot"), "usr"), "lib"),
                    ndk_triple(build_target))
    IN  IF td.tag # "Ok" THEN td
        ELSE IF ~Exists(f, dir) THEN PathNotFound(dir)
        ELSE OkPath(dir)

-----------------------------------------------------------------------------
(* The states outside the component a specification is about *)

\* the operation called and its arguments: two strings, a number and an Option
Call(op, target, num, str, opt) ==
    [op |-> op, target |-> target, num |-> num, str |-> str, opt |-> opt]
NoCall == Call("none", "", 0, "", None)

EnvNames == {"ANDROID_NDK_ROOT", "ANDROID_NDK_PATH", "ANDROID_NDK_HOME", "NDK_HOME", "HOST"}
EmptyEnv == [n \in EnvNames |-> Unset]

NoDaemon == dstate = "NotStarted" /\ acc = <<>> /\ invocations = <<>> /\ written = <<>>
NoCallYet == call = NoCall /\ pc = "idle" /\ res = NoResult /\ tmp_platform = 0
NoFiles == [p \in {} |-> ""]
NoOutput == files = NoFiles /\ status_out = <<>> /\ pkg_version = "0.1.0"

-----------------------------------------------------------------------------
(* Specification SpecFromEnv: locating the installation *)

SdkPaths == {None, Some("/sdk"), Some("/empty-sdk")}

\* what a toolchain-root variable can hold; each variable names a root of its own
NdkVarValues(n) ==
    {Unset, NotUnicode, SetTo("/from/" \o n)} \cup (IF n = "NDK_HOME" THEN {SetTo("")} ELSE {})

InitFromEnv ==
    /\ env \in {e \in [EnvNames -> UNION {NdkVarValues(n) : n \in EnvNames}] :
                   /\ e["HOST"] = Unset
                   /\ \A n \in EnvNames : e[n] \in NdkVarValues(n)}
    /\ fs \in {{}, {<<"/sdk", "ndk-bundle">>}, {<<"/sdk", "platform-tools">>}}
    /\ target_os = "linux"
    /\ overflow_checks = TRUE
    /\ ndk = [some |-> FALSE, val |-> <<>>]
    /\ NoCallYet /\ NoDaemon /\ NoOutput

\* AndroidNdk::from_env(sdk_path): on Ok the object holds the resolved ndk_path
FromEnv(sdk_path) ==
    /\ call' = Call("from_env", "", 0, "", sdk_path)
    /\ res' = from_env(env, fs, sdk_path)
    /\ ndk' = IF res'.tag = "Ok" THEN [some |-> TRUE, val |-> res'.path] ELSE ndk
    /\ UNCHANGED <<env, target_os, pkg_version, overflow_checks, fs, files, pc, tmp_platform,
                   daemonVars, status_out>>

NextFromEnv == \E sdk_path \in SdkPaths : FromEnv(sdk_path)

SpecFromEnv == InitFromEnv /\ [][NextFromEnv]_vars

-----------------------------------------------------------------------------
(* C4: the installation root found by from_env *)

\* the first name of the sequence names that satisfies P; "" if none does
FirstSuch(names, P(_)) ==
    LET hits == {i \in 1..Len(names) : P(names[i])}
    IN  IF hits = {} THEN "" ELSE names[CHOOSE i \in hits : \A j \in hits : i <= j]

Bundle(sdk_path) == <<sdk_path.val, "ndk-bundle">>

\* what from_env must return when variable `first` decides (or none does, first = "")
FromEnvExpected(first, rootOf(_)) ==
    IF first # "" THEN rootOf(first)
    ELSE IF call.opt.some /\ Exists(fs, Bundle(call.opt)) THEN OkPath(Bundle(call.opt))
    ELSE AndroidNdkNotFound

\* C4 as stated: the first SET variable decides, whatever it holds; the value of a
\* variable that is set to non-Unicode bytes is no string, written here as a path
\* no string names.
C4_FirstSetVariable ==
    call.op = "from_env" =>
        LET IsSet(n) == env[n].kind # "unset"
            rootOf(n) == IF env[n].kind = "ok" THEN OkPath(PathFrom(env[n].val))
                         ELSE OkPath(<<"<the non-Unicode value of " \o n \o ">">>)
        IN  res = FromEnvExpected(FirstSuch(NdkVars, IsSet), rootOf)

\* C4 amended: from_env resolves the installation root to the value of the first
\* variable, in the order ANDROID_NDK_ROOT, ANDROID_NDK_PATH, ANDROID_NDK_HOME,
\* NDK_HOME, that is set to valid Unicode; only when none of the four is, and
\* sdk_path is supplied and <sdk_path>/ndk-bundle exists, it returns that
\* directory; in every other case it fails with AndroidNdkNotFound.
C4_FirstReadableVariable ==
    call.op = "from_env" =>
        LET IsReadable(n) == env[n].kind = "ok"
            rootOf(n) == OkPath(PathFrom(env[n].val))
        IN  res = FromEnvExpected(FirstSuch(NdkVars, IsReadable), rootOf)

\* ANDROID_NDK_ROOT is skipped (not Unicode) and two later variables are set:
\* the earlier of them wins, although an SDK with a bundle was supplied
C4_Witness ==
    /\ call.op = "from_env"
    /\ env["ANDROID_NDK_ROOT"] = NotUnicode
    /\ env["ANDROID_NDK_PATH"] = Unset
    /\ env["ANDROID_NDK_HOME"].kind = "ok"
    /\ env["NDK_HOME"].kind = "ok"
    /\ call.opt = Some("/sdk") /\ Exists(fs, <<"/sdk", "ndk-bundle">>)
    /\ res = OkPath(<<env["ANDROID_NDK_HOME"].val>>)

-----------------------------------------------------------------------------
(* Specification SpecToolchain: the accessors of a constructed AndroidNdk *)

HostValues ==
    {Unset, NotUnicode, SetTo("x86_64-unknown-linux-gnu"),
     SetTo("x86_64-apple-darwin"), SetTo("aarch64-macos"),
     SetTo("x86_64-pc-windows-msvc"), SetTo("x86_64-unknown-freebsd")}

TargetOsValues == {"linux", "macos", "windows", "freebsd"}

\* the API levels the accessors are asked for
ApiLevels == {21, 30}

Prebuilt(root) == root \o <<"toolchains", "llvm", "prebuilt">>

\* An installed NDK under root for host tag `tag`: the toolchain directories
\* named tag \o l for l in layouts, each with the compiler wrappers `wrappers`
\* of Armv7 at API level 21 named with suffix ext and, with extras, readelf and
\* the sysroot library directory of Armv7.
NdkTree(root, tag, layouts, wrappers, ext, extras) ==
    LET dirs == {Prebuilt(root) \o <<tag \o l>> : l \in layouts}
    IN  {root} \cup dirs
        \cup {d \o <<"bin", "armv7a-linux-androideabi21-" \o w \o ext>> :
                 d \in dirs, w \in wrappers}
        \cup (IF extras
              THEN {d \o <<"bin", "arm-linux-androideabi-readelf">> : d \in dirs}
                   \cup {d \o <<"sysroot", "usr", "lib", "arm-linux-androideabi">> : d \in dirs}
              ELSE {})

NdkTrees(root, tags) ==
    {NdkTree(root, tag, layouts, wrappers, ext, extras) :
        tag \in tags,
        layouts \in SUBSET {"-x86_64", ""},
        wrappers \in SUBSET {"clang", "clang++"},
        ext \in {"", ".cmd"},
        extras \in BOOLEAN}

\* the two ways from_env finds a root, each with the trees installed under it:
\* a variable naming /opt/ndk, or the bundle under the SDK
Installations ==
    {<<[EmptyEnv EXCEPT !["ANDROID_NDK_HOME"] = SetTo("/opt/ndk")], t>> :
        t \in NdkTrees(<<"/opt/ndk">>, {"linux", "darwin", "windows"})}
    \cup {<<EmptyEnv, t>> : t \in NdkTrees(<<"/sdk", "ndk-bundle">>, {"linux"})}

InitToolchain ==
    /\ \E i \in Installations, h \in HostValues :
          /\ env = [i[1] EXCEPT !["HOST"] = h]
          /\ fs = i[2]
    /\ target_os \in TargetOsValues
    /\ overflow_checks = TRUE
    /\ from_env(env, fs, Some("/sdk")).tag = "Ok"
    /\ ndk = [some |-> TRUE, val |-> from_env(env, fs, Some("/sdk")).path]
    /\ NoCallYet /\ NoDaemon /\ NoOutput

Returns(c, r) ==
    /\ ndk.some
    /\ call' = c
    /\ res' = r
    /\ UNCHANGED <<env, target_os, pkg_version, overflow_checks, fs, files, ndk, pc, tmp_platform,
                   daemonVars, status_out>>

ToolchainDir ==
    Returns(Call("toolchain_dir", "", 0, "", None),
            toolchain_dir(env, target_os, fs, ndk.val))

Clang(target, platform) ==
    Returns(Call("clang", target, platform, "", None),
            clang(env, target_os, fs, ndk.val, target, platform))

ToolchainBin(bin, build_target) ==
    Returns(Call("toolchain_bin", build_target, 0, bin, None),
            toolchain_bin(env, target_os, fs, ndk.val, bin, build_target))

Readelf(build_target) ==
    Returns(Call("readelf", build_target, 0, "", None),
            readelf(env, target_os, fs, ndk.val, build_target))

SysrootLibDir(build_target) ==
    Returns(Call("sysroot_lib_dir", build_target, 0, "", None),
            sysroot_lib_dir(env, target_os, fs, ndk.val, build_target))

NextToolchain ==
    \/ ToolchainDir
    \/ \E t \in AndroidTargets, p \in ApiLevels : Clang(t, p)
    \/ \E t \in AndroidTargets : ToolchainBin("strip", t)
    \/ \E t \in AndroidTargets : Readelf(t)
    \/ \E t \in AndroidTargets : SysrootLibDir(t)

SpecToolchain == InitToolchain /\ [][NextToolchain]_vars

-----------------------------------------------------------------------------
(* C2, C3, C7: the toolchain directory and the compiler wrappers *)

HostString == EnvVar(env, "HOST")
BuiltForKnownPlatform == target_os \in {"linux", "macos", "windows"}

\* C2 as stated: every HOST string that names none of the three hosts (linux,
\* macos or darwin, windows) makes toolchain_dir fail with UnsupportedHost
\* carrying that string; with no HOST string and no compile-time platform, it
\* fails with UnsupportedTarget.
C2_UnrecognisedHostAlwaysFails ==
    call.op = "toolchain_dir" =>
        /\ (/\ HostString.some
            /\ \A s \in {"linux", "macos", "darwin", "windows"} : ~Contains(HostString.val, s))
               => res = UnsupportedHost(HostString.val)
        /\ (~HostString.some /\ ~BuiltForKnownPlatform) => res = UnsupportedTarget

\* C2 amended: for every HOST string that contains none of linux, macos,
\* windows, toolchain_dir fails with UnsupportedHost carrying exactly that
\* string when the binary was built for none of linux, macos, windows (when it
\* was, the host tag is the build platform's and no host error is raised); with
\* no HOST string and no such build platform it fails with UnsupportedTarget.
C2_UnsupportedHostOrTarget ==
    call.op = "toolchain_dir" =>
        LET unrecognised ==
                \A s \in {"linux", "macos", "windows"} : ~Contains(HostString.val, s)
        IN  /\ (HostString.some /\ unrecognised /\ ~BuiltForKnownPlatform)
                   => res = UnsupportedHost(HostString.val)
            /\ (~HostString.some /\ ~BuiltForKnownPlatform) => res = UnsupportedTarget

C2_Witness ==
    /\ call.op = "toolchain_dir"
    /\ target_os = "freebsd"
    /\ res = UnsupportedHost("x86_64-apple-darwin")

\* C3: with host tag a resolved, toolchain_dir returns
\* <root>/toolchains/llvm/prebuilt/<a>-x86_64 when it exists (also when the
\* bare sibling exists), the bare <root>/toolchains/llvm/prebuilt/<a> when only
\* that exists, and fails with PathNotFound carrying the bare path when neither
\* does; a returned directory exists.
C3_ToolchainDirProbe ==
    call.op = "toolchain_dir" =>
        LET a == host_arch(HostString, target_os)
            suffixed == ndk.val \o <<"toolchains", "llvm", "prebuilt", a.str \o "-x86_64">>
            bare == ndk.val \o <<"toolchains", "llvm", "prebuilt", a.str>>
        IN  a.tag = "Ok" =>
                /\ Exists(fs, suffixed) => res = OkPath(suffixed)
                /\ (~Exists(fs, suffixed) /\ Exists(fs, bare)) => res = OkPath(bare)
                /\ (~Exists(fs, suffixed) /\ ~Exists(fs, bare)) => res = PathNotFound(bare)
                /\ res.tag = "Ok" => Exists(fs, res.path)

\* only the bare directory of the resolved tag is installed, and it is returned
C3_Witness ==
    /\ call.op = "toolchain_dir"
    /\ HostString = Some("aarch64-macos")
    /\ ~Exists(fs, <<"/opt/ndk", "toolchains", "llvm", "prebuilt", "darwin-x86_64">>)
    /\ res = OkPath(<<"/opt/ndk", "toolchains", "llvm", "prebuilt", "darwin">>)

\* C7: once the toolchain directory td is resolved, clang(target, api) fails
\* with PathNotFound carrying td/bin/<triple><api>-clang<ext> when that file is
\* absent (whether or not the C++ one exists), otherwise with PathNotFound
\* carrying td/bin/<triple><api>-clang++<ext> when that one is absent, and
\* returns the pair of the two paths only when both exist.
C7_ClangMissingPath ==
    call.op = "clang" =>
        LET td == toolchain_dir(env, target_os, fs, ndk.val)
            triple == IF call.target = "Armv7" THEN "armv7a-linux-androideabi"
                      ELSE "aarch64-linux-android"
            ext == IF target_os = "windows" THEN ".cmd" ELSE ""
            c == td.path \o <<"bin", triple \o ToString(call.num) \o "-clang" \o ext>>
            cpp == td.path \o <<"bin", triple \o ToString(call.num) \o "-clang++" \o ext>>
        IN  td.tag = "Ok" =>
                /\ ~Exists(fs, c) => res = PathNotFound(c)
                /\ (Exists(fs, c) /\ ~Exists(fs, cpp)) => res = PathNotFound(cpp)
                /\ res.tag = "Ok" <=> (Exists(fs, c) /\ Exists(fs, cpp))
                /\ res.tag = "Ok" => res = OkPair(c, cpp)

\* the C front end is installed and the C++ one is not: the error names the latter
C7_Witness ==
    /\ call.op = "clang"
    /\ Exists(fs, <<"/opt/ndk", "toolchains", "llvm", "prebuilt", "windows-x86_64",
                    "bin", "armv7a-linux-androideabi21-clang.cmd">>)
    /\ res = PathNotFound(<<"/opt/ndk", "toolchains", "llvm", "prebuilt", "windows-x86_64",
                            "bin", "armv7a-linux-androideabi21-clang++.cmd">>)

-----------------------------------------------------------------------------
(* AndroidNdk::sysroot_platform_lib_dir, one loop iteration per step *)

\* min_sdk_version and tmp_platform are u32; the model counts in PlatformBits
\* bits, wide enough to hold the scan ceiling
PlatformBits == 7
PlatformMax == 2 ^ PlatformBits - 1
\* line 144: the second scan stops below this level
ScanCeiling == 100

\* lines 125-133: sysroot_lib_dir(build_target)?, then the first scan starts
PlatformLibDirEnter(build_target, min_sdk_version) ==
    /\ ndk.some
    /\ pc \in {"idle", "done"}
    /\ call' = Call("sysroot_platform_lib_dir", build_target, min_sdk_version, "", None)
    /\ LET dir == sysroot_lib_dir(env, target_os, fs, ndk.val, build_target)
       IN  IF dir.tag # "Ok"
           THEN res' = dir /\ pc' = "done" /\ tmp_platform' = 0
           ELSE res' = NoResult /\ pc' = "scan1" /\ tmp_platform' = min_sdk_version
    /\ UNCHANGED <<env, target_os, pkg_version, overflow_checks, fs, files, ndk, daemonVars, status_out>>

\* tmp_platform += 1 on a u32: a build with overflow checks panics at the
\* maximum, one without wraps to 0. Gives <<next pc, next counter, result>>.
Increment(at, n) ==
    IF n < PlatformMax THEN <<at, n + 1, NoResult>>
    ELSE IF overflow_checks THEN <<"done", n, Panicked>>
    ELSE <<at, 0, NoResult>>

\* lines 134-140: one test of `while tmp_platform > 1` and the body it guards
ScanFirst ==
    /\ pc = "scan1"
    /\ LET dir == sysroot_lib_dir(env, target_os, fs, ndk.val, call.target).path
           path == Join(dir, ToString(tmp_platform))
           step == Increment("scan1", tmp_platform)
       IN  IF tmp_platform > 1
           THEN IF Exists(fs, path)
                THEN res' = OkPath(path) /\ pc' = "done" /\ UNCHANGED tmp_platform
                ELSE pc' = step[1] /\ tmp_platform' = step[2] /\ res' = step[3]
           \* line 143: the second scan starts again from min_sdk_version
           ELSE pc' = "scan2" /\ tmp_platform' = call.num /\ UNCHANGED res
    /\ UNCHANGED <<env, target_os, pkg_version, overflow_checks, fs, files, ndk, call, daemonVars,
                   status_out>>

\* lines 144-152: one test of `while tmp_platform < 100` and the body it guards
ScanSecond ==
    /\ pc = "scan2"
    /\ LET dir == sysroot_lib_dir(env, target_os, fs, ndk.val, call.target).path
           path == Join(dir, ToString(tmp_platform))
           step == Increment("scan2", tmp_platform)
       IN  IF tmp_platform < ScanCeiling
           THEN IF Exists(fs, path)
                THEN res' = OkPath(path) /\ pc' = "done" /\ UNCHANGED tmp_platform
                ELSE pc' = step[1] /\ tmp_platform' = step[2] /\ res' = step[3]
           ELSE res' = PlatformNotFound(call.num) /\ pc' = "done" /\ UNCHANGED tmp_platform
    /\ UNCHANGED <<env, target_os, pkg_version, overflow_checks, fs, files, ndk, call, daemonVars,
                   status_out>>

-----------------------------------------------------------------------------
(* Specification SpecSysroot *)

\* the API-level directories an installed sysroot may hold
InstalledLevels == {0, 16, 21, 99, 110}
\* the min_sdk_version values asked for
MinSdkVersions == {0, 1, 2, 21, 22, 100, 111, PlatformMax}

SysrootDir == <<"/opt/ndk", "toolchains", "llvm", "prebuilt", "linux-x86_64",
                "sysroot", "usr", "lib", "arm-linux-androideabi">>

InitSysroot ==
    /\ env = [EmptyEnv EXCEPT !["ANDROID_NDK_ROOT"] = SetTo("/opt/ndk")]
    /\ target_os \in {"linux", "freebsd"}
    /\ overflow_checks \in BOOLEAN
    /\ \E levels \in SUBSET InstalledLevels :
          fs = {SysrootDir} \cup {Join(SysrootDir, ToString(n)) : n \in levels}
    /\ from_env(env, fs, None).tag = "Ok"
    /\ ndk = [some |-> TRUE, val |-> from_env(env, fs, None).path]
    /\ NoCallYet /\ NoDaemon /\ NoOutput

NextSysroot ==
    \/ \E t \in AndroidTargets, m \in MinSdkVersions : PlatformLibDirEnter(t, m)
    \/ ScanFirst
    \/ ScanSecond

SpecSysroot == InitSysroot /\ [][NextSysroot]_vars

-----------------------------------------------------------------------------
(* C1, C10: the platform directory scan *)

ScanFinished == call.op = "sysroot_platform_lib_dir" /\ pc = "done"

\* C1: sysroot_platform_lib_dir returns Ok(path) only for an existing
\* subdirectory of the sysroot library directory named by a numeric level, and
\* when no subdirectory named by a level from min_sdk_version up to the upper
\* bound 100 exists, it fails with PlatformNotFound(min_sdk_version).
C1_PlatformDirOrNotFound ==
    ScanFinished =>
        LET dir == sysroot_lib_dir(env, target_os, fs, ndk.val, call.target)
            level(n) == Join(dir.path, ToString(n))
        IN  dir.tag = "Ok" =>
                /\ res.tag = "Ok" =>
                       \E n \in 0..PlatformMax : res.path = level(n) /\ Exists(fs, level(n))
                /\ (\A n \in call.num..ScanCeiling : ~Exists(fs, level(n)))
                       => res = PlatformNotFound(call.num)

\* C10: the two scan loops end without the level counter overflowing: no
\* addition traps, and the counter never falls below min_sdk_version (it never
\* wraps around).
C10_CounterNeverOverflows ==
    /\ res.tag # "Panic"
    /\ pc \in {"scan1", "scan2"} => tmp_platform >= call.num

-----------------------------------------------------------------------------
(* GenAndroidManifest: Command::run writes <out_dir>/AndroidManifest.xml *)

IoError == Rs("Io", <<>>, <<>>, "", 0)
OkUnit == Rs("Ok", <<>>, <<>>, "", 0)

\* the manifests a caller hands to GenAndroidManifest::new
Manifests == {"empty", "element", "document"}

\* AndroidManifest::to_string: the rendered text of a manifest
to_string(manifest) ==
    IF manifest = "empty" THEN ""
    ELSE IF manifest = "element" THEN "<m/>"
    ELSE "<m>\n</m>"

\* f with the file at path holding content
WithFile(f, path, content) ==
    [p \in DOMAIN f \cup {path} |-> IF p = path THEN content ELSE f[p]]

\* a file opened for appending: what it held is kept
create_appending(f, path) ==
    IF path \in DOMAIN f THEN f ELSE WithFile(f, path, "")

\* line 26, File::create: the file is created, or truncated if it exists
create(f, path) == WithFile(f, path, "")

\* line 27, writeln!(file, "{}", text): the first `written_bytes` bytes of the
\* text and its newline reach the file, all of them unless the write fails
writeln(f, path, text, written_bytes) ==
    WithFile(f, path, f[path] \o SubSeq(text \o "\n", 1, written_bytes))

\* the invocations of run a behaviour holds
MaxRuns == 3

\* lines 25-29. io is what the operating system does: "ok", or the failure of
\* File::create or of the write after n bytes
Run(out_dir, manifest, io, n) ==
    LET path == Join(PathFrom(out_dir), "AndroidManifest.xml")
        text == to_string(manifest)
    IN  /\ call.num < MaxRuns
        /\ io = "ok" => n = 0
        /\ io = "create_fails" => n = 0
        /\ call' = Call("run", manifest, call.num + 1, out_dir, None)
        /\ IF ~Exists(fs, PathFrom(out_dir)) \/ io = "create_fails"
           THEN res' = IoError /\ UNCHANGED <<fs, files>>
           ELSE /\ fs' = fs \cup {path}
                /\ IF io = "write_fails"
                   THEN /\ files' = writeln(create(files, path), path, text, n)
                        /\ res' = IoError
                   ELSE /\ files' = writeln(create(files, path), path, text, Len(text) + 1)
                        /\ res' = OkUnit
        /\ UNCHANGED <<env, target_os, pkg_version, overflow_checks, ndk, pc, tmp_platform,
                       daemonVars, status_out>>

\* the caller creates an output directory (tests/gen_apple_app.rs, lines 12-13)
CreateDir(dir) ==
    /\ ~Exists(fs, PathFrom(dir))
    /\ fs' = fs \cup {PathFrom(dir)}
    /\ UNCHANGED <<env, target_os, pkg_version, overflow_checks, files, ndk, call, pc, tmp_platform,
                   res, daemonVars, status_out>>

OutDirs == {"target", "out"}

InitManifest ==
    /\ env = EmptyEnv
    /\ target_os = "linux"
    /\ overflow_checks = TRUE
    /\ fs = {}
    /\ ndk = [some |-> FALSE, val |-> <<>>]
    /\ NoCallYet /\ NoDaemon /\ NoOutput

NextManifest ==
    \/ \E d \in OutDirs : CreateDir(d)
    \/ \E d \in OutDirs, m \in Manifests, io \in {"ok", "create_fails", "write_fails"} :
          \E n \in 0..Len(to_string(m)) : Run(d, m, io, n)

SpecManifest == InitManifest /\ [][NextManifest]_vars

-----------------------------------------------------------------------------
(* C5: run overwrites the manifest file *)

ManifestPath(out_dir) == <<out_dir, "AndroidManifest.xml">>

\* C5: after a successful run on output directory D with rendered manifest S,
\* D/AndroidManifest.xml exists and holds exactly S followed by one newline,
\* whatever earlier invocations wrote there, and no step changes the manifest
\* file of another directory: after any sequence of successful invocations
\* the file holds the last S and a newline.
C5_RunOverwrites ==
    /\ [](call.op = "run" /\ res.tag = "Ok" =>
             /\ Exists(fs, ManifestPath(call.str))
             /\ ManifestPath(call.str) \in DOMAIN files
             /\ files[ManifestPath(call.str)] = to_string(call.target) \o "\n")
    /\ [][\A d \in OutDirs :
             (ManifestPath(d) \in DOMAIN files /\ ~(call'.op = "run" /\ call'.str = d /\ call' # call))
                 => (ManifestPath(d) \in DOMAIN files'
                     /\ files'[ManifestPath(d)] = files[ManifestPath(d)])]_vars

\* the third invocation on a directory wrote a manifest shorter than an earlier one
C5_Witness ==
    /\ call = Call("run", "element", 3, "target", None)
    /\ res.tag = "Ok"
    /\ files[ManifestPath("target")] = "<m/>\n"
    /\ ManifestPath("out") \in DOMAIN files
    /\ files[ManifestPath("out")] = "<m>\n</m>\n"

-----------------------------------------------------------------------------
(* The aapt2 daemon session: Aapt2::daemon starts it; "Each subsequent line  *)
(* is a single parameter to the command. The end of an invocation is         *)
(* signaled by providing an empty line."                                     *)

\* the lines a behaviour writes to the subprocess input
MaxLines == 5

DaemonArgs == {"compile", "-o", "out/"}

otherVars == <<env, target_os, pkg_version, overflow_checks, fs, files, ndk, call, pc, tmp_platform,
               res, status_out>>

\* Aapt2::daemon(trace_folder), run: the subprocess awaits the first invocation
Daemon ==
    /\ dstate = "NotStarted"
    /\ dstate' = "Idle"
    /\ UNCHANGED <<acc, invocations, written, otherVars>>

\* Accumulating: the caller writes one argument on a line of its own
WriteArgument(line) ==
    /\ dstate \in {"Idle", "Accumulating"}
    /\ Len(written) < MaxLines
    /\ line # ""
    /\ written' = Append(written, line)
    /\ acc' = Append(acc, line)
    /\ dstate' = "Accumulating"
    /\ UNCHANGED <<invocations, otherVars>>

\* a daemon that takes a blank line with no argument before it as no invocation
WriteBlankSkippingEmpty ==
    /\ dstate \in {"Idle", "Accumulating"}
    /\ Len(written) < MaxLines
    /\ written' = Append(written, "")
    /\ invocations' = IF acc = <<>> THEN invocations ELSE Append(invocations, acc)
    /\ acc' = <<>>
    /\ dstate' = "Dispatched"
    /\ UNCHANGED otherVars

\* Dispatched: a blank line ends the arguments; the subprocess runs one
\* invocation with the arguments accumulated
WriteBlank ==
    /\ dstate \in {"Idle", "Accumulating"}
    /\ Len(written) < MaxLines
    /\ written' = Append(written, "")
    /\ invocations' = Append(invocations, acc)
    /\ acc' = <<>>
    /\ dstate' = "Dispatched"
    /\ UNCHANGED otherVars

\* the subprocess prints its response and returns to Idle
Respond ==
    /\ dstate = "Dispatched"
    /\ dstate' = "Idle"
    /\ UNCHANGED <<acc, invocations, written, otherVars>>

\* Terminal: the caller closes the input stream
CloseInput ==
    /\ dstate \in {"Idle", "Accumulating"}
    /\ dstate' = "Closed"
    /\ UNCHANGED <<acc, invocations, written, otherVars>>

InitDaemon ==
    /\ env = EmptyEnv
    /\ target_os = "linux"
    /\ overflow_checks = TRUE
    /\ fs = {}
    /\ ndk = [some |-> FALSE, val |-> <<>>]
    /\ NoCallYet /\ NoDaemon /\ NoOutput

NextDaemon ==
    \/ Daemon
    \/ \E line \in DaemonArgs : WriteArgument(line)
    \/ WriteBlank
    \/ Respond
    \/ CloseInput

SpecDaemon == InitDaemon /\ [][NextDaemon]_vars

-----------------------------------------------------------------------------
(* C6: one invocation per blank line *)

BlankLines(lines) == Cardinality({i \in 1..Len(lines) : lines[i] = ""})

\* the position of the k-th blank line of lines (0 for k = 0)
BlankAt(lines, k) ==
    IF k = 0 THEN 0
    ELSE CHOOSE i \in 1..Len(lines) :
            lines[i] = "" /\ Cardinality({j \in 1..i : lines[j] = ""}) = k

\* the lines between the (k-1)-th blank line (or the start) and the k-th
BatchBefore(lines, k) == SubSeq(lines, BlankAt(lines, k - 1) + 1, BlankAt(lines, k) - 1)

\* C6: in a session written by its single owner, the invocations dispatched
\* are as many as the blank lines written; the k-th has exactly the non-blank
\* lines written between the (k-1)-th blank line (or the session's start) and
\* the k-th, in order, so a blank line with no argument before it dispatches
\* an empty invocation; and a dispatch is followed by the return to Idle,
\* with no argument left over.
C6_OneInvocationPerBlankLine ==
    /\ [](/\ Len(invocations) = BlankLines(written)
          /\ \A k \in 1..Len(invocations) : invocations[k] = BatchBefore(written, k)
          /\ dstate \in {"Dispatched", "Idle"} => acc = <<>>)
    /\ [][dstate = "Dispatched" => dstate' = "Idle"]_vars

\* compile -o out/ and a blank line, then a second blank line
C6_Witness ==
    /\ written = <<"compile", "-o", "out/", "", "">>
    /\ invocations = << <<"compile", "-o", "out/">>, <<>> >>
    /\ dstate = "Idle"

-----------------------------------------------------------------------------
(* The update check of the command line tool *)

WhiteSpace == {" ", "\t", "\n", "\r"}

RECURSIVE Split(_, _)
\* str::split on any character of seps: the fields, empty ones included
Split(str, seps) ==
    LET cuts == {i \in 1..Len(str) : SubSeq(str, i, i) \in seps}
    IN  IF cuts = {} THEN <<str>>
        ELSE LET i == CHOOSE c \in cuts : \A d \in cuts : c <= d
             IN  <<SubSeq(str, 1, i - 1)>> \o Split(SubSeq(str, i + 1, Len(str)), seps)

\* str::trim
Trim(str) ==
    LET keep == {i \in 1..Len(str) : SubSeq(str, i, i) \notin WhiteSpace}
    IN  IF keep = {} THEN ""
        ELSE SubSeq(str, CHOOSE i \in keep : \A j \in keep : i <= j,
                         CHOOSE i \in keep : \A j \in keep : i >= j)

\* str::starts_with
StartsWith(str, prefix) ==
    Len(prefix) <= Len(str) /\ SubSeq(str, 1, Len(prefix)) = prefix

RECURSIVE Remove(_, _)
\* str::replace(str, ch, "")
Remove(str, ch) ==
    IF str = "" THEN ""
    ELSE (IF SubSeq(str, 1, 1) = ch THEN "" ELSE SubSeq(str, 1, 1))
         \o Remove(SubSeq(str, 2, Len(str)), ch)

Digits == {"0", "1", "2", "3", "4", "5", "6", "7", "8", "9"}
IsNumber(str) == str # "" /\ \A i \in 1..Len(str) : SubSeq(str, i, i) \in Digits

RECURSIVE ParseNumber(_)
\* str::parse of a string of digits
ParseNumber(str) ==
    IF str = "" THEN 0
    ELSE 10 * ParseNumber(SubSeq(str, 1, Len(str) - 1))
         + (CHOOSE d \in 0..9 : ToString(d) = SubSeq(str, Len(str), Len(str)))

\* Version::from_semver: the first three fields between '.', '-' and '+' are
\* the numbers major, minor and patch; otherwise the string does not parse
from_semver(version) ==
    LET fields == Split(version, {".", "-", "+"})
    IN  IF Len(fields) >= 3 /\ \A i \in 1..3 : IsNumber(fields[i])
        THEN [ok |-> TRUE, major |-> ParseNumber(fields[1]),
              minor |-> ParseNumber(fields[2]), patch |-> ParseNumber(fields[3])]
        ELSE [ok |-> FALSE, major |-> 0, minor |-> 0, patch |-> 0]

\* lines 50-67
is_same(version1, version2, default_result) ==
    LET values1 == from_semver(version1)
        values2 == from_semver(version2)
    IN  IF values1.ok
        THEN IF values2.ok
             THEN /\ values1.major = values2.major
                  /\ values1.minor = values2.minor
                  /\ values1.patch = values2.patch
             ELSE default_result
        ELSE default_result

\* an is_newer that takes every unparseable new version for a newer one
is_newer_unparseable_is_new(old_string, new_string, default_result) ==
    LET old_values == from_semver(old_string)
        new_values == from_semver(new_string)
    IN  IF old_values.ok
        THEN IF new_values.ok
             THEN IF new_values.major > old_values.major THEN TRUE
                  ELSE IF new_values.major = old_values.major
                       THEN IF new_values.minor > old_values.minor THEN TRUE
                            ELSE /\ new_values.minor = old_values.minor
                                 /\ new_values.patch > old_values.patch
                       ELSE FALSE
             ELSE TRUE
        ELSE default_result

\* lines 71-98
is_newer(old_string, new_string, default_result) ==
    LET old_values == from_semver(old_string)
        new_values == from_semver(new_string)
    IN  IF old_values.ok
        THEN IF new_values.ok
             THEN IF new_values.major > old_values.major THEN TRUE
                  ELSE IF new_values.major = old_values.major
                       THEN IF new_values.minor > old_values.minor THEN TRUE
                            ELSE /\ new_values.minor = old_values.minor
                                 /\ new_values.patch > old_values.patch
                       ELSE FALSE
             ELSE default_result
        ELSE default_result

\* lines 22-29
is_newer_found(VERSION, version_string) == is_newer(VERSION, version_string, FALSE)
is_same_found(VERSION, version_string) == is_same(VERSION, version_string, FALSE)

\* lines 130-141
get_version_from_output(line) ==
    LET parts == Split(line, {" "})
    IN  IF Len(parts) >= 3 THEN Some(Remove(parts[3], "\"")) ELSE None

\* lines 101-127: output is what `cargo search` printed, None if it did not run
get_latest_version(output) ==
    IF output.some
    THEN LET lines == Split(output.val, {"\n"})
             hits == {i \in 1..Len(lines) : StartsWith(Trim(lines[i]), "crossbundle = ")}
         IN  IF hits = {} THEN None
             ELSE get_version_from_output(
                      Trim(lines[CHOOSE i \in hits : \A j \in hits : i <= j]))
    ELSE None

\* lines 32-46: the status lines of a notification
new_version_available(VERSION, latest_version) ==
    <<"NEW CROSSBUNDLE VERSION FOUND!!!", "Current version " \o VERSION,
      "latest " \o latest_version>>
latest_version_using(version_string) ==
    <<"You are using latest version of crossbundle project " \o version_string>>

\* lines 8-19: the lines check prints for the latest version found
check_messages(VERSION, latest) ==
    IF latest.some
    THEN IF is_newer_found(VERSION, latest.val)
         THEN new_version_available(VERSION, latest.val)
         ELSE IF is_same_found(VERSION, latest.val)
              THEN latest_version_using(latest.val)
              ELSE <<>>
    ELSE <<>>

BoolResult(b) == Rs("Ok", <<>>, <<>>, IF b THEN "true" ELSE "false", 0)

\* The public functions share no state: a behaviour is one call of one of them.
\* check(config); output is what `cargo search` gave and fails_at the status
\* call that fails to write (0: none does)
Check(output, fails_at) ==
    LET latest == get_latest_version(output)
        messages == check_messages(pkg_version, latest)
    IN  /\ pc = "idle"
        /\ pc' = "done"
        /\ fails_at <= Len(messages)
        /\ call' = Call("check", output.val, fails_at, "", latest)
        /\ IF fails_at = 0
           THEN status_out' = status_out \o messages /\ res' = OkUnit
           ELSE /\ status_out' = status_out \o SubSeq(messages, 1, fails_at - 1)
                /\ res' = IoError
        /\ UNCHANGED <<env, target_os, pkg_version, overflow_checks, fs, files, ndk,
                       tmp_platform, daemonVars>>

IsNewer(old_string, new_string, default_result) ==
    /\ pc = "idle"
    /\ pc' = "done"
    /\ call' = Call("is_newer", new_string, 0, old_string, Some(BoolResult(default_result).str))
    /\ res' = BoolResult(is_newer(old_string, new_string, default_result))
    /\ UNCHANGED <<env, target_os, pkg_version, overflow_checks, fs, files, ndk,
                   tmp_platform, daemonVars, status_out>>

IsSame(version1, version2, default_result) ==
    /\ pc = "idle"
    /\ pc' = "done"
    /\ call' = Call("is_same", version2, 0, version1, Some(BoolResult(default_result).str))
    /\ res' = BoolResult(is_same(version1, version2, default_result))
    /\ UNCHANGED <<env, target_os, pkg_version, overflow_checks, fs, files, ndk,
                   tmp_platform, daemonVars, status_out>>

\* version strings, well formed and not
VersionStrings ==
    {"0.1.0", "0.1.1", "0.2.0", "1.0.0", "0.10.0", "0.1.0-beta", "0.1", "", "0.x.1", "v0.1.0"}

\* what `cargo search crossbundle --limit=1` may print
CargoOutputs ==
    {None,
     Some(""),
     Some("crossbundle = \"0.2.0\"    # Build and publish apps\n... and 3 crates more"),
     Some("crossbundle = \"0.1.0\" # Build and publish apps"),
     Some("crossbundle = \"0.0.9\" # Build and publish apps"),
     Some("  crossbundle = \"1.0.0\""),
     Some("crossbundle-tools = \"0.2.0\" # Tools"),
     Some("crossbundle = "),
     Some("crossbundle =  \"0.2.0\""),
     Some("crossbundle = \"latest\" # Build and publish apps")}

InitUpdate ==
    /\ env = EmptyEnv
    /\ target_os = "linux"
    /\ overflow_checks = TRUE
    /\ fs = {}
    /\ ndk = [some |-> FALSE, val |-> <<>>]
    /\ NoCallYet /\ NoDaemon
    /\ files = NoFiles /\ status_out = <<>>
    /\ pkg_version \in {"0.1.0", "0.2.0-rc"}

NextUpdate ==
    \/ \E o \in CargoOutputs, k \in 0..3 : Check(o, k)
    \/ \E v1, v2 \in VersionStrings, d \in BOOLEAN : IsNewer(v1, v2, d)
    \/ \E v1, v2 \in VersionStrings, d \in BOOLEAN : IsSame(v1, v2, d)

SpecUpdate == InitUpdate /\ [][NextUpdate]_vars

-----------------------------------------------------------------------------
(* C8: the comparison falls back to the caller's default *)

\* C8: is_newer and is_same return default_result whenever one of the two
\* version strings does not parse, and only then leave the comparison aside:
\* when both parse, the result is the comparison of (major, minor, patch),
\* whatever the default; so check, whose default is false, prints nothing
\* and returns Ok when no latest version was obtained or it does not parse.
C8_DefaultOnUnparseable ==
    LET new == from_semver(call.target)
        old == from_semver(call.str)
        later == \/ new.major > old.major
                 \/ new.major = old.major /\ new.minor > old.minor
                 \/ new.major = old.major /\ new.minor = old.minor /\ new.patch > old.patch
        same == <<new.major, new.minor, new.patch>> = <<old.major, old.minor, old.patch>>
    IN  /\ call.op \in {"is_newer", "is_same"} =>
              IF new.ok /\ old.ok
              THEN res = BoolResult(IF call.op = "is_newer" THEN later ELSE same)
              ELSE res.str = call.opt.val
        /\ (call.op = "check" /\ (~call.opt.some \/ ~from_semver(call.opt.val).ok))
              => (status_out = <<>> /\ res = OkUnit)

\* cargo search answered with a version that is no semantic version
C8_Witness ==
    /\ call.op = "check"
    /\ call.opt = Some("latest")
    /\ status_out = <<>>
    /\ res = OkUnit

====
